---- MODULE Spec2Model ----
(***************************************************************************)
(* State machine of the ARIA chat platform's state classes:               *)
(*   ChatState     (src/app/states/state.py)                               *)
(*   SettingsState (src/app/states/settings_state.py)                      *)
(*                                                                         *)
(* A Python str is a sequence of one-character strings, so that slicing,   *)
(* strip, startswith, split and concatenation are computed, not assumed.   *)
(* A Python dict is a function; `k in d` is `k \in DOMAIN d`.  The model   *)
(* keeps the mapping of a dict, not its insertion order.                   *)
(*                                                                         *)
(* Event handlers run one at a time (Reflex holds the state lock for a     *)
(* whole synchronous handler).  A background handler holds the lock only   *)
(* inside `async with self`; every such block, together with the local     *)
(* computation that precedes it, is one atomic action, and other events    *)
(* interleave between two blocks.                                          *)
(***************************************************************************)
EXTENDS Naturals, Integers, Sequences, FiniteSets, Bags, TLC

VARIABLES
    chats,             \* ChatState.chats: thread key -> list of Message
    current_chat_id,   \* ChatState.current_chat_id
    is_streaming,      \* ChatState.is_streaming
    submits,           \* the handle_submit background tasks, by number
    api_keys,          \* SettingsState.api_keys
    selected_model,    \* SettingsState.selected_model
    models,            \* SettingsState.models
    expanded_providers,\* SettingsState.expanded_providers
    loading_models,    \* SettingsState.loading_models
    error_messages,    \* SettingsState.error_messages
    model_search_terms,\* SettingsState.model_search_terms
    refreshes,         \* the refresh_models background tasks, a bag
    servers,           \* McpState.servers
    show_mcp_modal,    \* McpState.show_mcp_modal
    show_custom_server_form,    \* McpState.show_custom_server_form
    custom_server_name,         \* McpState.custom_server_name
    custom_server_description,  \* McpState.custom_server_description
    custom_server_repo,         \* McpState.custom_server_repo
    custom_server_form_error    \* McpState.custom_server_form_error

chatVars == <<chats, current_chat_id, is_streaming, submits>>

catalogVars == <<models, expanded_providers, loading_models, error_messages, refreshes>>

settingsVars == <<api_keys, selected_model, catalogVars, model_search_terms>>

formVars ==
    <<custom_server_name, custom_server_description, custom_server_repo,
      custom_server_form_error>>

mcpVars == <<servers, show_mcp_modal, show_custom_server_form, formVars>>

vars == <<chatVars, settingsVars, mcpVars>>

(***************************************************************************)
(* Bounds of the model.                                                    *)
(***************************************************************************)
MaxSubmits == 2

MaxChats == 2

MaxProviders == 1

MaxRefreshes == 2

MaxModelIdLen == 4

(***************************************************************************)
(* String literals of the source.                                          *)
(***************************************************************************)
NewChatTitle ==
    <<"n","e","w"," ","c","h","a","t">>

ChatPrefix ==
    <<"c","h","a","t","_">>

NoModelSelected ==
    <<"N","o"," ","m","o","d","e","l"," ","s","e","l","e","c","t","e","d","."," ","P","l","e","a","s","e"," ","s","e","l","e","c","t"," ","a"," ","m","o","d","e","l"," ","i","n"," ","s","e","t","t","i","n","g","s",".">>

ApiKeyForPrefix ==
    <<"A","P","I"," ","k","e","y"," ","f","o","r"," ">>

NotSetSuffix ==
    <<" ","n","o","t"," ","s","e","t",".">>

ProviderPrefix ==
    <<"P","r","o","v","i","d","e","r"," ","'">>

NotSupportedSuffix ==
    <<"'"," ","i","s"," ","n","o","t"," ","y","e","t"," ","s","u","p","p","o","r","t","e","d"," ","f","o","r"," ","c","h","a","t",".">>

ApiErrorPrefix ==
    <<"A","P","I"," ","E","r","r","o","r",":"," ">>

ApiErrorSep ==
    <<" ","-"," ">>

openai ==
    <<"o","p","e","n","a","i">>

anthropic ==
    <<"a","n","t","h","r","o","p","i","c">>

gemini ==
    <<"g","e","m","i","n","i">>

groq ==
    <<"g","r","o","q">>

deepseek ==
    <<"d","e","e","p","s","e","e","k">>

moonshot ==
    <<"m","o","o","n","s","h","o","t">>

openrouter ==
    <<"o","p","e","n","r","o","u","t","e","r">>

ollama ==
    <<"o","l","l","a","m","a">>

TitleLen == 20

(***************************************************************************)
(* Python string primitives.                                               *)
(***************************************************************************)
Whitespace == {" ", "\t", "\n"}

RECURSIVE LStrip(_)
LStrip(s) ==
    IF s # <<>> /\ Head(s) \in Whitespace THEN LStrip(Tail(s)) ELSE s

RECURSIVE RStrip(_)
RStrip(s) ==
    IF s # <<>> /\ s[Len(s)] \in Whitespace
    THEN RStrip(SubSeq(s, 1, Len(s) - 1))
    ELSE s

\* s with its whitespace kept
Unstripped(s) == s

\* str.strip()
Strip(s) == RStrip(LStrip(s))

\* s with no slicing
TakeAll(s, n) == s

\* s[:n]
Take(s, n) == SubSeq(s, 1, IF Len(s) < n THEN Len(s) ELSE n)

\* s[:-1]
DropLast(s) == SubSeq(s, 1, Len(s) - 1)

\* s.startswith(p)
StartsWith(s, p) == Len(s) >= Len(p) /\ SubSeq(s, 1, Len(p)) = p

Digit(d) == <<"0","1","2","3","4","5","6","7","8","9">>[d + 1]

\* str(n) of a non-negative int
RECURSIVE Str(_)
Str(n) ==
    IF n < 10 THEN <<Digit(n)>> ELSE Str(n \div 10) \o <<Digit(n % 10)>>

\* Python dict operations: {}, d[k] = v, d.pop(k, None)
EmptyDict == [k \in {} |-> <<>>]

DictSet(d, k, v) == [x \in DOMAIN d \cup {k} |-> IF x = k THEN v ELSE d[x]]

DictPop(d, k) == [x \in DOMAIN d \ {k} |-> d[x]]

\* code point order of the characters the model uses
Alphabet ==
    <<" ","'","-",".","/","0","1","2","3","4","5","6","7","8","9",":","A","B","C","D","E","F","G","H","I","J","K","L","M","N","O","P","Q","R","S","T","U","V","W","X","Y","Z","_","a","b","c","d","e","f","g","h","i","j","k","l","m","n","o","p","q","r","s","t","u","v","w","x","y","z">>

Ord(c) == CHOOSE i \in 1 .. Len(Alphabet) : Alphabet[i] = c

\* a < b for two str
RECURSIVE StrLess(_, _)
StrLess(a, b) ==
    IF b = <<>> THEN FALSE
    ELSE IF a = <<>> THEN TRUE
    ELSE IF Head(a) = Head(b) THEN StrLess(Tail(a), Tail(b))
    ELSE Ord(Head(a)) < Ord(Head(b))

\* the list with x inserted after the last element that is not greater
RECURSIVE Insert(_, _)
Insert(sortedList, x) ==
    IF sortedList = <<>> THEN <<x>>
    ELSE IF StrLess(x, Head(sortedList)) THEN <<x>> \o sortedList
    ELSE <<Head(sortedList)>> \o Insert(Tail(sortedList), x)

\* sorted(list) of a list of str
RECURSIVE Sorted(_)
Sorted(list) ==
    IF list = <<>> THEN <<>>
    ELSE Insert(Sorted(SubSeq(list, 1, Len(list) - 1)), list[Len(list)])

\* s.replace(old, "") for a non-empty old
RECURSIVE RemoveAll(_, _)
RemoveAll(s, old) ==
    IF Len(s) < Len(old) THEN s
    ELSE IF SubSeq(s, 1, Len(old)) = old
    THEN RemoveAll(SubSeq(s, Len(old) + 1, Len(s)), old)
    ELSE <<Head(s)>> \o RemoveAll(Tail(s), old)

\* index of the first ":" of s, 0 when there is none
RECURSIVE FirstColonFrom(_, _)
FirstColonFrom(s, i) ==
    IF i > Len(s) THEN 0
    ELSE IF s[i] = ":" THEN i
    ELSE FirstColonFrom(s, i + 1)

FirstColon(s) == FirstColonFrom(s, 1)

(***************************************************************************)
(* SettingsState: computed vars.                                           *)
(***************************************************************************)
\* selected_model.split(":")[0] when ":" in selected_model, else ""
selected_provider ==
    IF FirstColon(selected_model) # 0
    THEN SubSeq(selected_model, 1, FirstColon(selected_model) - 1)
    ELSE <<>>

\* selected_model.split(":")[1]: the part between the first two colons
ModelIdUpToSecondColon ==
    LET rest == SubSeq(selected_model, FirstColon(selected_model) + 1,
                       Len(selected_model))
    IN  IF FirstColon(selected_model) = 0 THEN <<>>
        ELSE IF FirstColon(rest) = 0 THEN rest
        ELSE SubSeq(rest, 1, FirstColon(rest) - 1)

\* selected_model.split(":", 1)[1] when ":" in selected_model, else ""
selected_model_id ==
    IF FirstColon(selected_model) # 0
    THEN SubSeq(selected_model, FirstColon(selected_model) + 1, Len(selected_model))
    ELSE <<>>

KnownProviders ==
    {openai, anthropic, gemini, groq, deepseek, moonshot, openrouter, ollama}

\* keys of base_urls in _process_and_stream_response
openai_compatible_providers ==
    {openai, groq, deepseek, openrouter, moonshot, ollama}

\* the credential check left out for every provider
EveryProviderKeyless == openai_compatible_providers

\* providers exempt from the credential check
KeylessProviders == {openrouter, ollama}

(***************************************************************************)
(* ChatState: messages and tasks.                                          *)
(***************************************************************************)
\* A Message: role and content.  owner is not a field of the program's
\* Message: it records the submission that appended the message, so that a
\* property can tell a message from an equal one of another submission.
UserMessage(text, t) == [role |-> "user", content |-> text, owner |-> t]

\* the placeholder with the role of the message before it
PlaceholderAsUser(text, t) == [role |-> "user", content |-> text, owner |-> t]

AssistantMessage(text, t) == [role |-> "assistant", content |-> text, owner |-> t]

Submits == 1 .. MaxSubmits

\* A handle_submit task.  pc is the task's position:
\*   idle        not submitted
\*   resolve     after the first block, before _process_and_stream_response
\*   write_error an error result is to be written into the placeholder
\*   request     the generator awaits client.chat.completions.create
\*   stream      the generator iterates the response
\*   finally     the finally block is to run
\*   done        returned
\*   crashed     ended by an exception that left the handler
\* home and slot record where the task appended its placeholder.
IdleTask ==
    [pc |-> "idle", error |-> <<>>, model |-> <<>>, key |-> <<>>, sent |-> <<>>,
     acc |-> <<>>, chunks |-> <<>>, exc |-> "none", home |-> <<>>, slot |-> 0]

ActivePcs == {"resolve", "write_error", "request", "stream", "finally"}

(***************************************************************************)
(* McpState (mcp_state.py 13-56): the servers of the initial state.        *)
(***************************************************************************)
\* an McpServer
Server(name, description, repo, installed, running) ==
    [name |-> name, description |-> description, repo |-> repo,
     installed |-> installed, running |-> running]

web_search ==
    <<"w","e","b","-","s","e","a","r","c","h">>

time ==
    <<"t","i","m","e">>

\* lines 14-50
InitialServers ==
    web_search :>
        Server(<<"W","e","b"," ","S","e","a","r","c","h">>,
               <<"E","n","a","b","l","e","s"," ","t","h","e"," ","m","o","d","e",
                 "l"," ","t","o"," ","s","e","a","r","c","h"," ","t","h","e"," ",
                 "w","e","b"," ","u","s","i","n","g"," ","v","a","r","i","o","u",
                 "s"," ","s","e","a","r","c","h"," ","e","n","g","i","n","e","s",
                 ".">>,
               <<"h","t","t","p","s",":","/","/","g","i","t","h","u","b",".","c",
                 "o","m","/","m","c","p","-","a","i","/","w","e","b","-","s","e",
                 "a","r","c","h","-","m","c","p","-","s","e","r","v","e","r">>,
               FALSE, FALSE)
    @@ <<"c","o","d","e","-","i","n","t","e","r","p","r","e","t","e","r">> :>
        Server(<<"C","o","d","e"," ","I","n","t","e","r","p","r","e","t","e","r">>,
               <<"A"," ","N","o","d","e",".","j","s"," ","c","o","d","e"," ","i",
                 "n","t","e","r","p","r","e","t","e","r"," ","f","o","r"," ","e",
                 "x","e","c","u","t","i","n","g"," ","c","o","d","e",".">>,
               <<"h","t","t","p","s",":","/","/","g","i","t","h","u","b",".","c",
                 "o","m","/","m","c","p","-","a","i","/","n","o","d","e","-","c",
                 "o","d","e","-","i","n","t","e","r","p","r","e","t","e","r","-",
                 "m","c","p","-","s","e","r","v","e","r">>,
               FALSE, FALSE)
    @@ time :>
        Server(<<"T","i","m","e">>,
               <<"P","r","o","v","i","d","e","s"," ","t","i","m","e"," ","a","n",
                 "d"," ","t","i","m","e","z","o","n","e"," ","c","o","n","v","e",
                 "r","s","i","o","n"," ","c","a","p","a","b","i","l","i","t","i",
                 "e","s",".">>,
               <<"h","t","t","p","s",":","/","/","g","i","t","h","u","b",".","c",
                 "o","m","/","m","o","d","e","l","-","c","o","n","t","e","x","t",
                 "-","p","r","o","t","o","c","o","l","/","t","i","m","e">>,
               FALSE, FALSE)
    @@ <<"p","u","p","p","e","t","e","e","r">> :>
        Server(<<"P","u","p","p","e","t","e","e","r">>,
               <<"B","r","o","w","s","e","r"," ","a","u","t","o","m","a","t","i",
                 "o","n"," ","a","n","d"," ","w","e","b"," ","s","c","r","a","p",
                 "i","n","g",".">>,
               <<"h","t","t","p","s",":","/","/","g","i","t","h","u","b",".","c",
                 "o","m","/","m","o","d","e","l","-","c","o","n","t","e","x","t",
                 "-","p","r","o","t","o","c","o","l","/","p","u","p","p","e","t",
                 "e","e","r">>,
               FALSE, FALSE)
    @@ <<"s","e","r","p","e","r","-","m","c","p","-","s","e","r","v","e",
      "r">> :>
        Server(<<"S","e","r","p","e","r"," ","S","e","a","r","c","h">>,
               <<"A"," ","G","o","o","g","l","e"," ","S","e","a","r","c","h"," ",
                 "A","P","I"," ","c","o","n","n","e","c","t","o","r"," ","v","i",
                 "a"," ","s","e","r","p","e","r",".","d","e","v",".">>,
               <<"h","t","t","p","s",":","/","/","g","i","t","h","u","b",".","c",
                 "o","m","/","g","a","r","y","m","e","n","g","/","s","e","r","p",
                 "e","r","-","m","c","p","-","s","e","r","v","e","r">>,
               FALSE, FALSE)

Init ==
    /\ chats = (NewChatTitle :> <<>>)
    /\ current_chat_id = NewChatTitle
    /\ is_streaming = FALSE
    /\ submits = [t \in Submits |-> IdleTask]
    /\ api_keys = [p \in KnownProviders |-> <<>>]
    /\ selected_model = <<>>
    /\ models = EmptyDict
    /\ expanded_providers = {}
    /\ loading_models = {}
    /\ error_messages = EmptyDict
    /\ model_search_terms = EmptyDict
    /\ refreshes = EmptyBag
    /\ servers = InitialServers
    /\ show_mcp_modal = FALSE
    /\ show_custom_server_form = FALSE
    /\ custom_server_name = <<>>
    /\ custom_server_description = <<>>
    /\ custom_server_repo = <<>>
    /\ custom_server_form_error = <<>>

(***************************************************************************)
(* Inputs of the events.                                                   *)
(***************************************************************************)
\* Python's None, as a value no str equals
None == <<"<None>">>

\* str(x) inside an f-string
PyStr(x) == IF x = None THEN <<"N","o","n","e">> ELSE x

\* d.get(k)
Get(d, k) == IF k \in DOMAIN d THEN d[k] ELSE None

\* form_data["message"] values: blank; padded and, once stripped, equal to a
\* new_chat key; longer than TitleLen
MessageTexts ==
    { <<" "," ">>,
      <<" ","c","h","a","t","_","1"," ">>,
      <<"t","e","l","l"," ","m","e"," ","a","b","o","u","t"," ","n","e","w"," ","c","h","a","t","_","1">> }

\* model_id values of select_model: none, missing key, unsupported, keyless
ModelChoices ==
    { <<>>,
      <<"o","p","e","n","a","i",":","g","p","t","-","4">>,
      <<"a","n","t","h","r","o","p","i","c",":","c","l","a","u","d","e","-","3">>,
      <<"o","l","l","a","m","a",":","l","l","a","m","a","2",":","l","a","t","e","s","t">> }

\* chunks of a streamed chat completion: chunk.choices[0].delta.content is a
\* str or None; iterating the stream may raise APIError(code, message)
Delta(text) == [kind |-> "delta", content |-> text]

EmptyDelta == [kind |-> "delta", content |-> None]

ApiError(code, message) == [kind |-> "error", code |-> code, message |-> message]

\* what client.chat.completions.create and the iteration of its result may
\* deliver: two fragments around a content-less chunk; a fragment and then an
\* APIError; an APIError raised by the request itself
Responses ==
    { <<Delta(<<"H","e","l">>), EmptyDelta, Delta(<<"l","o">>)>>,
      <<Delta(<<"H","e","l">>), ApiError(None, <<"b","a","d">>)>>,
      <<ApiError(None, <<"b","a","d">>)>> }

\* chat_id values of set_current_chat_id: the titles the sidebar shows
SidebarTitles == DOMAIN chats

\* and also the initial title, which is stale once the first thread is renamed
ChatIdChoices == SidebarTitles \cup {NewChatTitle}

(***************************************************************************)
(* ChatState.new_chat (state.py 41-46)                                     *)
(***************************************************************************)
\* f"chat_{len(self.chats)}"
NewChatId(c) == ChatPrefix \o Str(Cardinality(DOMAIN c))

\* the assignment left out
ChatsWithoutNew(c, new_id) == c

\* self.chats[new_id] = []
ChatsWithNew(c, new_id) ==
    [k \in DOMAIN c \cup {new_id} |-> IF k = new_id THEN <<>> ELSE c[k]]

new_chat ==
    /\ Cardinality(DOMAIN chats) < MaxChats
    /\ chats' = ChatsWithNew(chats, NewChatId(chats))
    /\ current_chat_id' = NewChatId(chats)
    /\ UNCHANGED <<is_streaming, submits, settingsVars, mcpVars>>

(***************************************************************************)
(* ChatState.set_current_chat_id (state.py 48-55)                          *)
(***************************************************************************)
set_current_chat_id(chat_id) ==
    /\ current_chat_id' = chat_id
    /\ UNCHANGED <<chats, is_streaming, submits, settingsVars, mcpVars>>

(***************************************************************************)
(* SettingsState.select_model (settings_state.py 262-269)                  *)
(***************************************************************************)
select_model(model_id) ==
    /\ selected_model' = model_id
    /\ UNCHANGED <<mcpVars, chatVars, model_search_terms, api_keys, catalogVars>>

(***************************************************************************)
(* ChatState.handle_submit, first block (state.py 118-139)                 *)
(***************************************************************************)
\* self.chats[new_title] = self.chats.pop(old_id), the popped list being msgs
ChatsRenamed(c, old_id, new_title, msgs) ==
    [k \in (DOMAIN c \ {old_id}) \cup {new_title} |->
        IF k = new_title THEN msgs ELSE c[k]]

\* the rename condition, evaluated after the user message is appended
ShouldRename(c, id) == Len(c[id]) = 1 /\ StartsWith(id, NewChatTitle)

\* the thread key after the rename step
TitleAfterSubmit(c, id, message_text) ==
    IF ShouldRename(c, id) THEN Take(message_text, TitleLen) ELSE id

\* the threads after the user message is appended and the thread renamed
ChatsAfterUserMessage(c, id, message_text, t) ==
    LET appended == [c EXCEPT ![id] = Append(@, UserMessage(message_text, t))]
    IN  IF ShouldRename(appended, id)
        THEN ChatsRenamed(appended, id, Take(message_text, TitleLen), appended[id])
        ELSE appended

\* the placeholder put in front of the last message instead of after it
ChatsWithPlaceholderFirst(c, id, t) ==
    [c EXCEPT ![id] = SubSeq(@, 1, Len(@) - 1)
                        \o <<AssistantMessage(<<>>, t), @[Len(@)]>>]

\* self.chats[self.current_chat_id].append(assistant_message)
ChatsWithPlaceholder(c, id, t) ==
    [c EXCEPT ![id] = Append(@, AssistantMessage(<<>>, t))]

handle_submit(t, message) ==
    /\ submits[t].pc = "idle"
    /\ IF t = 1 THEN TRUE ELSE submits[t - 1].pc # "idle"
    /\ LET message_text == Strip(message)
       IN  IF message_text = <<>>
           THEN \* return before any block
                /\ submits' = [submits EXCEPT ![t].pc = "done"]
                /\ UNCHANGED <<chats, current_chat_id, is_streaming>>
           ELSE IF current_chat_id \notin DOMAIN chats
           THEN \* KeyError in the first block, outside the try
                /\ submits' = [submits EXCEPT ![t].pc = "crashed", ![t].exc = "KeyError"]
                /\ UNCHANGED <<chats, current_chat_id, is_streaming>>
           ELSE LET withUser == ChatsAfterUserMessage(chats, current_chat_id, message_text, t)
                    appendedOnly == [chats EXCEPT ![current_chat_id] =
                                        Append(@, UserMessage(message_text, t))]
                    id == TitleAfterSubmit(appendedOnly, current_chat_id, message_text)
                IN  /\ chats' = ChatsWithPlaceholder(withUser, id, t)
                    /\ current_chat_id' = id
                    /\ is_streaming' = TRUE
                    /\ submits' = [submits EXCEPT ![t].pc = "resolve",
                                                  ![t].home = id,
                                                  ![t].slot = Len(withUser[id]) + 1]
    /\ UNCHANGED <<settingsVars, mcpVars>>

(***************************************************************************)
(* ChatState._process_and_stream_response (state.py 83-116), called at     *)
(* state.py 142                                                            *)
(***************************************************************************)
ApiKeyNotSet(provider) == ApiKeyForPrefix \o provider \o NotSetSuffix

ProviderNotSupported(provider) == ProviderPrefix \o provider \o NotSupportedSuffix

process_and_stream_response(t) ==
    /\ submits[t].pc = "resolve"
    /\ LET provider == selected_provider
           model_id == selected_model_id
           api_key  == Get(api_keys, provider)
       IN  IF provider = <<>> \/ model_id = <<>>
           THEN submits' = [submits EXCEPT ![t].pc = "write_error",
                                           ![t].error = NoModelSelected]
           ELSE IF current_chat_id \notin DOMAIN chats
           THEN \* KeyError at messages_to_send
                submits' = [submits EXCEPT ![t].pc = "finally", ![t].exc = "KeyError"]
           ELSE IF provider \in openai_compatible_providers
           THEN IF api_key \in {None, <<>>} /\ provider \notin KeylessProviders
                THEN submits' = [submits EXCEPT ![t].pc = "write_error",
                                                ![t].error = ApiKeyNotSet(provider)]
                ELSE submits' = [submits EXCEPT ![t].pc = "request",
                                                ![t].model = model_id,
                                                ![t].key = api_key,
                                                ![t].sent = DropLast(chats[current_chat_id])]
           ELSE submits' = [submits EXCEPT ![t].pc = "write_error",
                                           ![t].error = ProviderNotSupported(provider)]
    /\ UNCHANGED <<chats, current_chat_id, is_streaming, settingsVars, mcpVars>>

(***************************************************************************)
(* self.chats[self.current_chat_id][-1]["content"] = content               *)
(* (state.py 73, 81, 148)                                                  *)
(***************************************************************************)
\* the exception the assignment raises, "none" when it succeeds
WriteException(c, id) ==
    IF id \notin DOMAIN c THEN "KeyError"
    ELSE IF c[id] = <<>> THEN "IndexError"
    ELSE "none"

\* the thread the assignment writes to
WriteTarget(t) == current_chat_id

\* the assignment with index 0 in place of -1
WriteFirst(c, id, content) == [c EXCEPT ![id][1].content = content]

WriteLast(c, id, content) == [c EXCEPT ![id][Len(c[id])].content = content]

(***************************************************************************)
(* handle_submit, error result (state.py 146-148)                          *)
(***************************************************************************)
write_error(t) ==
    /\ submits[t].pc = "write_error"
    /\ LET exc == WriteException(chats, WriteTarget(t))
       IN  /\ chats' = IF exc = "none"
                       THEN WriteLast(chats, WriteTarget(t), submits[t].error)
                       ELSE chats
           /\ submits' = [submits EXCEPT ![t].pc = "finally", ![t].exc = exc]
    /\ UNCHANGED <<current_chat_id, is_streaming, settingsVars, mcpVars>>

(***************************************************************************)
(* ChatState._stream_openai_compatible_response (state.py 57-81)           *)
(***************************************************************************)
\* chunks whose delta.content is None are passed over without a write
RECURSIVE SkipEmpty(_)
SkipEmpty(chunks) ==
    IF chunks # <<>> /\ Head(chunks) = EmptyDelta
    THEN SkipEmpty(Tail(chunks))
    ELSE chunks

\* f"API Error: {e.code} - {e.message}"
ApiErrorMessage(e) ==
    ApiErrorPrefix \o PyStr(e.code) \o ApiErrorSep \o PyStr(e.message)

\* the awaited client.chat.completions.create returns or raises
create_stream(t, response) ==
    /\ submits[t].pc = "request"
    /\ submits' = [submits EXCEPT ![t].pc = "stream",
                                  ![t].model = <<>>,
                                  ![t].key = <<>>,
                                  ![t].sent = <<>>,
                                  ![t].acc = <<>>,
                                  ![t].chunks = SkipEmpty(response)]
    /\ UNCHANGED <<chats, current_chat_id, is_streaming, settingsVars, mcpVars>>

\* the fragment stored without the fragments before it
NextContentFragmentOnly(t) ==
    LET chunk == Head(submits[t].chunks)
    IN  IF chunk.kind = "delta" THEN chunk.content ELSE ApiErrorMessage(chunk)

\* the content the next write stores: the accumulator, or the error message
NextContent(t) ==
    LET chunk == Head(submits[t].chunks)
    IN  IF chunk.kind = "delta"
        THEN submits[t].acc \o chunk.content
        ELSE ApiErrorMessage(chunk)

\* one pass of the loop body up to its yield, or the except block
stream_chunk(t) ==
    /\ submits[t].pc = "stream"
    /\ LET chunk == Head(submits[t].chunks)
           rest  == SkipEmpty(Tail(submits[t].chunks))
           exc   == WriteException(chats, WriteTarget(t))
           ends  == exc # "none" \/ chunk.kind = "error" \/ rest = <<>>
       IN  /\ chats' = IF exc = "none"
                       THEN WriteLast(chats, WriteTarget(t), NextContent(t))
                       ELSE chats
           /\ submits' = [submits EXCEPT ![t].pc = IF ends THEN "finally" ELSE "stream",
                                         ![t].acc = IF ends THEN <<>> ELSE NextContent(t),
                                         ![t].chunks = IF ends THEN <<>> ELSE rest,
                                         ![t].exc = exc]
    /\ UNCHANGED <<current_chat_id, is_streaming, settingsVars, mcpVars>>

(***************************************************************************)
(* handle_submit, finally block (state.py 149-151)                         *)
(***************************************************************************)
\* the finally block leaving the flag as it is
StreamingKept == is_streaming

\* line 151
StreamingAfterFinally == FALSE

handle_submit_finally(t) ==
    /\ submits[t].pc = "finally"
    /\ is_streaming' = StreamingAfterFinally
    /\ submits' = [submits EXCEPT ![t] =
                      [IdleTask EXCEPT !.pc = IF submits[t].exc = "none"
                                              THEN "done" ELSE "crashed",
                                       !.exc = submits[t].exc]]
    /\ UNCHANGED <<chats, current_chat_id, settingsVars, mcpVars>>

(***************************************************************************)
(* The chat specification: the chat events and the steps of the            *)
(* submissions, in any interleaving.                                       *)
(***************************************************************************)
SubmitStep ==
    \/ \E t \in Submits, message \in MessageTexts : handle_submit(t, message)
    \/ \E t \in Submits : process_and_stream_response(t)
    \/ \E t \in Submits : write_error(t)
    \/ \E t \in Submits, response \in Responses : create_stream(t, response)
    \/ \E t \in Submits : stream_chunk(t)
    \/ \E t \in Submits : handle_submit_finally(t)

\* set_current_chat_id may be given any key, also one that no thread has
Next ==
    \/ new_chat
    \/ \E chat_id \in ChatIdChoices : set_current_chat_id(chat_id)
    \/ \E model_id \in ModelChoices : select_model(model_id)
    \/ SubmitStep

Spec == Init /\ [][Next]_vars

\* set_current_chat_id is given only keys of existing threads, as the
\* sidebar does when its titles are current
SidebarNext ==
    \/ new_chat
    \/ \E chat_id \in SidebarTitles : set_current_chat_id(chat_id)
    \/ \E model_id \in ModelChoices : select_model(model_id)
    \/ SubmitStep

SidebarSpec == Init /\ [][SidebarNext]_vars

\* A started background task is scheduled again after each await: the event
\* loop resumes it, the state lock is granted in turn, and the client's
\* request returns or raises within its timeout.
SubmitFairness ==
    \A t \in Submits :
        /\ WF_vars(process_and_stream_response(t))
        /\ WF_vars(write_error(t))
        /\ WF_vars(\E response \in Responses : create_stream(t, response))
        /\ WF_vars(stream_chunk(t))
        /\ WF_vars(handle_submit_finally(t))

FairSpec == Spec /\ SubmitFairness

(***************************************************************************)
(* SettingsState: inputs of the events and of the listings.                *)
(***************************************************************************)
InvalidApiKey ==
    <<"I","n","v","a","l","i","d"," ","A","P","I"," ","K","e","y",".">>

ErrorPrefix ==
    <<"E","r","r","o","r",":"," ">>

ConnectionFailed ==
    <<"C","o","n","n","e","c","t","i","o","n"," ","f","a","i","l","e","d","."," ","I","s"," ","O","l","l","a","m","a"," ","r","u","n","n","i","n","g","?">>

DefaultOllamaUrl ==
    <<"h","t","t","p",":","/","/","l","o","c","a","l","h","o","s","t",":","1","1","4","3","4">>

ModelsPrefix ==
    <<"m","o","d","e","l","s","/">>

\* the hardcoded list of refresh_models (settings_state.py 220-224)
AnthropicModels ==
    << <<"c","l","a","u","d","e","-","3","-","o","p","u","s","-","2","0","2","4","0","2","2","9">>,
       <<"c","l","a","u","d","e","-","3","-","s","o","n","n","e","t","-","2","0","2","4","0","2","2","9">>,
       <<"c","l","a","u","d","e","-","3","-","h","a","i","k","u","-","2","0","2","4","0","3","0","7">> >>

\* a provider key the catalog does not know
UnknownProvider == <<"x","a","i">>

ProviderChoices == KnownProviders \cup {UnknownProvider}

\* key values of set_api_key: cleared, set
KeyChoices == { <<>>, <<"s","k","-","1">> }

\* one entry of a listing: its id (model.id, model["id"], m.name or
\* model["name"]) and whether generateContent is among its methods
Entry(id, generate) == [id |-> id, generate |-> generate]

\* what a listing call may deliver: a list of entries, or an exception with
\* its class, its HTTP status code and its str()
Listed(entries) ==
    [kind |-> "ok", entries |-> entries, code |-> None, message |-> None]

Raised(kind, code) ==
    [kind |-> kind, entries |-> <<>>, code |-> code, message |-> <<"f","a","i","l">>]

ListingOutcomes ==
    { Listed(<< Entry(<<"m","o","d","e","l","s","/","b">>, TRUE),
                Entry(<<"C">>, FALSE),
                Entry(<<"a">>, TRUE) >>),
      Listed(<<>>),
      Raised("auth", <<"4","0","1">>),
      Raised("status", <<"4","2","9">>),
      Raised("connect", None),
      Raised("other", None) }

(***************************************************************************)
(* The fetchers (settings_state.py 52-140): the pair (models, error) each  *)
(* returns for an outcome of its listing call.                             *)
(***************************************************************************)
Result(fetched_models, error) == [fetched_models |-> fetched_models, error |-> error]

RECURSIVE Ids(_)
Ids(entries) ==
    IF entries = <<>> THEN <<>> ELSE <<Head(entries).id>> \o Ids(Tail(entries))

RECURSIVE GenerativeNames(_)
GenerativeNames(entries) ==
    IF entries = <<>> THEN <<>>
    ELSE IF Head(entries).generate
    THEN <<RemoveAll(Head(entries).id, ModelsPrefix)>> \o GenerativeNames(Tail(entries))
    ELSE GenerativeNames(Tail(entries))

ErrorOf(text) == ErrorPrefix \o PyStr(text)

\* the fetcher without its AuthenticationError clause
fetch_openai_without_auth_clause(outcome) ==
    IF outcome.kind = "ok" THEN Result(Sorted(Ids(outcome.entries)), None)
    ELSE Result(<<>>, ErrorOf(outcome.message))

\* _fetch_openai_compatible_models, lines 58-69
fetch_openai_compatible_models(outcome) ==
    IF outcome.kind = "ok" THEN Result(Sorted(Ids(outcome.entries)), None)
    ELSE IF outcome.kind = "auth" THEN Result(<<>>, InvalidApiKey)
    ELSE Result(<<>>, ErrorOf(outcome.message))

\* _fetch_gemini_models, lines 75-88
fetch_gemini_models(outcome) ==
    IF outcome.kind = "ok" THEN Result(Sorted(GenerativeNames(outcome.entries)), None)
    ELSE Result(<<>>, ErrorOf(outcome.message))

\* _fetch_openrouter_models, lines 92-108; a rejected key is an HTTP status
fetch_openrouter_models(outcome) ==
    IF outcome.kind = "ok" THEN Result(Sorted(Ids(outcome.entries)), None)
    ELSE IF outcome.kind \in {"auth", "status"} THEN Result(<<>>, ErrorOf(outcome.code))
    ELSE Result(<<>>, ErrorOf(outcome.message))

\* _fetch_moonshot_models, lines 114-125
fetch_moonshot_models(outcome) ==
    IF outcome.kind = "ok" THEN Result(Sorted(Ids(outcome.entries)), None)
    ELSE Result(<<>>, ErrorOf(outcome.message))

\* _fetch_ollama_models, lines 129-140
fetch_ollama_models(outcome) ==
    IF outcome.kind = "ok" THEN Result(Sorted(Ids(outcome.entries)), None)
    ELSE IF outcome.kind = "connect" THEN Result(<<>>, ConnectionFailed)
    ELSE Result(<<>>, ErrorOf(outcome.message))

\* every fetcher returning before its call when the credential is empty
EveryFetcherRequiresKey ==
    {openai, groq, deepseek, gemini, moonshot, openrouter, ollama}

\* the providers whose fetcher returns [], None without a call when the
\* credential is empty (lines 55-57, 72-74, 111-113)
KeyRequiredProviders == {openai, groq, deepseek, gemini, moonshot}

\* the providers whose fetcher performs a listing call
ListingProviders == KeyRequiredProviders \cup {openrouter, ollama}

\* the dispatch of refresh_models (lines 200-224) on the outcome of the call
FetchResult(provider, outcome) ==
    IF provider \in {openai, groq, deepseek} THEN fetch_openai_compatible_models(outcome)
    ELSE IF provider = gemini THEN fetch_gemini_models(outcome)
    ELSE IF provider = openrouter THEN fetch_openrouter_models(outcome)
    ELSE IF provider = moonshot THEN fetch_moonshot_models(outcome)
    ELSE fetch_ollama_models(outcome)

(***************************************************************************)
(* The refresh_models background tasks.  pc is the task's position:        *)
(*   entry     started, before the first block                             *)
(*   fetch     after the first block, before the fetcher reads the key     *)
(*   listing   the listing call is in flight (key: the credential it uses) *)
(*   complete  the fetcher has returned, before the second block           *)
(*   crashed   ended by an exception that left the handler                 *)
(***************************************************************************)
NewRefresh(provider) ==
    [provider |-> provider, pc |-> "entry", key |-> None,
     fetched_models |-> <<>>, error |-> None]

Tasks == BagToSet(refreshes)

Started(provider) == refreshes (+) SetToBag({NewRefresh(provider)})

Moved(r, next) == (refreshes (-) SetToBag({r})) (+) SetToBag({next})

Ended(r) == refreshes (-) SetToBag({r})

\* the tasks of a provider that have passed the first block and not ended
InFlight(provider) ==
    {r \in Tasks : r.provider = provider /\ r.pc \in {"fetch", "listing", "complete"}}

\* the providers whose settings differ from the initial ones
Touched ==
    {p \in ProviderChoices :
        \/ p \in DOMAIN api_keys /\ (p \notin KnownProviders \/ api_keys[p] # <<>>)
        \/ p \in expanded_providers \cup loading_models
        \/ p \in DOMAIN models \cup DOMAIN error_messages
        \/ \E r \in Tasks : r.provider = p}

InScope(provider) == provider \in Touched \/ Cardinality(Touched) < MaxProviders

HasRoom == BagCardinality(refreshes) < MaxRefreshes

(***************************************************************************)
(* SettingsState.set_api_key (settings_state.py 147-164)                   *)
(***************************************************************************)
\* the selection left as it is when the credential is cleared
SelectionKept(provider) == selected_model

\* lines 160-161: the selection is cleared when it belongs to the provider
SelectionAfterClear(provider) ==
    IF selected_provider = provider THEN <<>> ELSE selected_model

\* the provider's refresh tasks cancelled when the credential is cleared
RefreshesCancelledOnClear(provider) ==
    [r \in {t \in Tasks : t.provider # provider} |-> refreshes[r]]

\* lines 153-164: the clearing branch leaves the background tasks running
RefreshesAfterClear(provider) == refreshes

set_api_key(provider, key) ==
    /\ InScope(provider)
    /\ key # <<>> => HasRoom
    /\ api_keys' = DictSet(api_keys, provider, key)
    /\ error_messages' = DictPop(error_messages, provider)
    /\ IF key = <<>>
       THEN /\ expanded_providers' = expanded_providers \ {provider}
            /\ models' = DictPop(models, provider)
            /\ selected_model' = SelectionAfterClear(provider)
            /\ refreshes' = RefreshesAfterClear(provider)
       ELSE /\ refreshes' = Started(provider)
            /\ UNCHANGED <<expanded_providers, models, selected_model>>
    /\ UNCHANGED <<mcpVars, chatVars, model_search_terms, loading_models>>

(***************************************************************************)
(* SettingsState.toggle_provider_expansion (settings_state.py 166-180)     *)
(***************************************************************************)
\* the condition under which expanding starts a refresh (lines 177-179)
ExpansionRefreshes(provider) ==
    /\ provider \notin DOMAIN models
    /\ Get(api_keys, provider) \notin {None, <<>>} \/ provider = ollama

toggle_provider_expansion(provider) ==
    /\ InScope(provider)
    /\ IF provider \in expanded_providers
       THEN /\ expanded_providers' = expanded_providers \ {provider}
            /\ UNCHANGED refreshes
       ELSE /\ expanded_providers' = expanded_providers \cup {provider}
            /\ IF ExpansionRefreshes(provider)
               THEN HasRoom /\ refreshes' = Started(provider)
               ELSE UNCHANGED refreshes
    /\ UNCHANGED <<mcpVars, chatVars, model_search_terms, api_keys, selected_model, models, loading_models,
                   error_messages>>

(***************************************************************************)
(* SettingsState.refresh_models (settings_state.py 182-231)                *)
(***************************************************************************)
\* the event starts a background task
refresh_models(provider) ==
    /\ InScope(provider)
    /\ HasRoom
    /\ refreshes' = Started(provider)
    /\ UNCHANGED <<mcpVars, chatVars, model_search_terms, api_keys, selected_model, models, expanded_providers,
                   loading_models, error_messages>>

\* the check of line 193 left out
NeverLoading(provider) == FALSE

\* line 193
AlreadyLoading(provider) == provider \in loading_models

\* the cached list left in the catalog on entry
ModelsKeptOnEntry(provider) == models

\* line 198: self.models.pop(provider, None)
ModelsAfterEntry(provider) == DictPop(models, provider)

\* the error entry left in place on entry
ErrorsKeptOnEntry(provider) == error_messages

\* line 197: self.error_messages.pop(provider, None)
ErrorsAfterEntry(provider) == DictPop(error_messages, provider)

\* the provider not added to the loading set
LoadingUnchangedOnEntry(provider) == loading_models

\* line 195: self.loading_models.add(provider)
LoadingAfterEntry(provider) == loading_models \cup {provider}

\* the first block, lines 192-198
refresh_models_entry(r) ==
    /\ r \in Tasks /\ r.pc = "entry"
    /\ IF AlreadyLoading(r.provider)
       THEN /\ refreshes' = Ended(r)
            /\ UNCHANGED <<loading_models, expanded_providers, error_messages, models>>
       ELSE /\ loading_models' = LoadingAfterEntry(r.provider)
            /\ expanded_providers' = expanded_providers \cup {r.provider}
            /\ error_messages' = ErrorsAfterEntry(r.provider)
            /\ models' = ModelsAfterEntry(r.provider)
            /\ refreshes' = Moved(r, [r EXCEPT !.pc = "fetch"])
    /\ UNCHANGED <<mcpVars, chatVars, model_search_terms, api_keys, selected_model>>

\* the credential a fetcher reads when it starts (lines 55, 72, 91, 111, 128)
FetchKey(provider) ==
    IF provider = ollama
    THEN IF ollama \in DOMAIN api_keys THEN api_keys[ollama] ELSE DefaultOllamaUrl
    ELSE Get(api_keys, provider)

\* the dispatch up to the listing call: the fetcher returns at once, or the
\* call is issued
fetch_models(r) ==
    /\ r \in Tasks /\ r.pc = "fetch"
    /\ LET key == FetchKey(r.provider)
       IN  IF r.provider = anthropic
           THEN refreshes' = Moved(r, [r EXCEPT !.pc = "complete",
                                                !.fetched_models = AnthropicModels])
           ELSE IF r.provider \notin ListingProviders
           THEN refreshes' = Moved(r, [r EXCEPT !.pc = "complete"])
           ELSE IF r.provider \in KeyRequiredProviders /\ key \in {None, <<>>}
           THEN refreshes' = Moved(r, [r EXCEPT !.pc = "complete"])
           ELSE refreshes' = Moved(r, [r EXCEPT !.pc = "listing", !.key = key])
    /\ UNCHANGED <<mcpVars, chatVars, model_search_terms, api_keys, selected_model, models, expanded_providers,
                   loading_models, error_messages>>

\* the listing call returns or raises, and the fetcher returns its pair
fetch_response(r, outcome) ==
    /\ r \in Tasks /\ r.pc = "listing"
    /\ LET result == FetchResult(r.provider, outcome)
       IN  refreshes' = Moved(r, [r EXCEPT !.pc = "complete",
                                           !.fetched_models = result.fetched_models,
                                           !.error = result.error])
    /\ UNCHANGED <<mcpVars, chatVars, model_search_terms, api_keys, selected_model, models, expanded_providers,
                   loading_models, error_messages>>

\* the list stored whatever the fetch returned
ModelsStoredAlways(r) == DictSet(models, r.provider, r.fetched_models)

\* lines 227-230: the list is stored when there is no error and it is not
\* empty
ModelsAfterComplete(r) ==
    IF r.error \in {None, <<>>} /\ r.fetched_models # <<>>
    THEN DictSet(models, r.provider, r.fetched_models)
    ELSE models

\* the provider left in the loading set
LoadingKeptOnComplete(r) == loading_models

\* line 231: self.loading_models.remove(provider)
LoadingAfterComplete(r) == loading_models \ {r.provider}

\* the second block, lines 226-231; set.remove raises KeyError on a missing
\* element
refresh_models_complete(r) ==
    /\ r \in Tasks /\ r.pc = "complete"
    /\ error_messages' = IF r.error \notin {None, <<>>}
                         THEN DictSet(error_messages, r.provider, r.error)
                         ELSE error_messages
    /\ models' = ModelsAfterComplete(r)
    /\ loading_models' = LoadingAfterComplete(r)
    /\ refreshes' = IF r.provider \in loading_models
                    THEN Ended(r)
                    ELSE Moved(r, [r EXCEPT !.pc = "crashed"])
    /\ UNCHANGED <<mcpVars, chatVars, model_search_terms, api_keys, selected_model, expanded_providers>>

(***************************************************************************)
(* SettingsState.set_model_search_term and SettingsState.filtered_models   *)
(* (settings_state.py 233-260)                                             *)
(***************************************************************************)
UppercaseLetters ==
    <<"A","B","C","D","E","F","G","H","I","J","K","L","M","N","O","P","Q","R","S","T","U","V","W","X","Y","Z">>

LowercaseLetters ==
    <<"a","b","c","d","e","f","g","h","i","j","k","l","m","n","o","p","q","r","s","t","u","v","w","x","y","z">>

LowerChar(c) ==
    IF \E i \in 1 .. Len(UppercaseLetters) : UppercaseLetters[i] = c
    THEN LowercaseLetters[CHOOSE i \in 1 .. Len(UppercaseLetters) :
                              UppercaseLetters[i] = c]
    ELSE c

\* the string left as it is
LowerUnchanged(s) == s

\* s.lower()
Lower(s) == [i \in 1 .. Len(s) |-> LowerChar(s[i])]

\* sub in s, for two str
Contains(s, sub) ==
    \E i \in 0 .. Len(s) - Len(sub) : SubSeq(s, i + 1, i + Len(sub)) = sub

\* [model for model in models_list if search_term in model.lower()]
RECURSIVE Matching(_, _)
Matching(models_list, search_term) ==
    IF models_list = <<>> THEN <<>>
    ELSE IF Contains(Lower(Head(models_list)), search_term)
    THEN <<Head(models_list)>> \o Matching(Tail(models_list), search_term)
    ELSE Matching(Tail(models_list), search_term)

filtered_models ==
    [provider \in DOMAIN models |->
        LET search_term ==
                Lower(IF provider \in DOMAIN model_search_terms
                      THEN model_search_terms[provider] ELSE <<>>)
        IN  IF search_term = <<>>
            THEN models[provider]
            ELSE Matching(models[provider], search_term)]

\* provider and term values of set_model_search_term
SearchProviders == {anthropic, openai}

SearchTerms == { <<>>, <<"S">>, <<"c">> }

set_model_search_term(provider, term) ==
    /\ model_search_terms' = DictSet(model_search_terms, provider, term)
    /\ UNCHANGED <<mcpVars, chatVars, api_keys, selected_model, catalogVars>>

(***************************************************************************)
(* The settings specification: the settings events and the steps of the    *)
(* refresh tasks, in any interleaving.                                     *)
(***************************************************************************)
SettingsNext ==
    \/ \E provider \in ProviderChoices, key \in KeyChoices : set_api_key(provider, key)
    \/ \E provider \in ProviderChoices : toggle_provider_expansion(provider)
    \/ \E provider \in ProviderChoices : refresh_models(provider)
    \/ \E model_id \in ModelChoices : select_model(model_id)
    \/ \E r \in Tasks : refresh_models_entry(r)
    \/ \E r \in Tasks : fetch_models(r)
    \/ \E r \in Tasks, outcome \in ListingOutcomes : fetch_response(r, outcome)
    \/ \E r \in Tasks : refresh_models_complete(r)

SettingsSpec == Init /\ [][SettingsNext]_vars

\* A started refresh task is scheduled again after each await, the state
\* lock is granted in turn, and the listing call returns or raises within the
\* client's timeout.
RefreshFairness ==
    \A provider \in ProviderChoices :
        /\ WF_vars(\E r \in Tasks : r.provider = provider /\ refresh_models_entry(r))
        /\ WF_vars(\E r \in Tasks : r.provider = provider /\ fetch_models(r))
        /\ WF_vars(\E r \in Tasks, outcome \in ListingOutcomes :
                      r.provider = provider /\ fetch_response(r, outcome))
        /\ WF_vars(\E r \in Tasks : r.provider = provider /\ refresh_models_complete(r))

FairSettingsSpec == SettingsSpec /\ RefreshFairness

\* the settings events together with the search box of the model lists
SearchNext ==
    \/ SettingsNext
    \/ \E provider \in SearchProviders, term \in SearchTerms :
          set_model_search_term(provider, term)

SearchSpec == Init /\ [][SearchNext]_vars

(***************************************************************************)
(* McpState (mcp_state.py 58-105)                                          *)
(***************************************************************************)
\* server_name values of install_server and toggle_server_running: two of
\* the initial keys, the key of a custom server, a key no server has
CustomKey == <<"m","y","-","s","e","r","v","e","r">>

ServerChoices == {web_search, time, CustomKey, <<"n","o","p","e">>}

\* values typed into the custom server form; the fields are empty at first
\* and after a reset
NameChoices == { <<"M","y"," ","S","e","r","v","e","r">>, <<"T","i","m","e">> }

\* _reset_custom_server_form, lines 58-62
reset_custom_server_form ==
    /\ custom_server_name' = <<>>
    /\ custom_server_description' = <<>>
    /\ custom_server_repo' = <<>>
    /\ custom_server_form_error' = <<>>

\* lines 64-69
toggle_mcp_modal ==
    /\ show_mcp_modal' = ~show_mcp_modal
    /\ IF ~show_mcp_modal'
       THEN show_custom_server_form' = FALSE /\ reset_custom_server_form
       ELSE UNCHANGED <<show_custom_server_form, formVars>>
    /\ UNCHANGED <<servers, chatVars, settingsVars>>

\* lines 71-74
install_server(server_name) ==
    /\ servers' = IF server_name \in DOMAIN servers
                  THEN [servers EXCEPT ![server_name].installed = TRUE]
                  ELSE servers
    /\ UNCHANGED <<show_mcp_modal, show_custom_server_form, formVars, chatVars, settingsVars>>

\* every known server may be toggled
CanToggleUninstalled(server_name) == server_name \in DOMAIN servers

\* the condition of line 78
CanToggle(server_name) ==
    IF server_name \in DOMAIN servers THEN servers[server_name].installed ELSE FALSE

\* lines 76-81
toggle_server_running(server_name) ==
    /\ servers' = IF CanToggle(server_name)
                  THEN [servers EXCEPT ![server_name].running = ~@]
                  ELSE servers
    /\ UNCHANGED <<show_mcp_modal, show_custom_server_form, formVars, chatVars, settingsVars>>

\* lines 83-86
toggle_custom_server_form ==
    /\ show_custom_server_form' = ~show_custom_server_form
    /\ reset_custom_server_form
    /\ UNCHANGED <<servers, show_mcp_modal, chatVars, settingsVars>>

\* line 93: name.lower().replace(" ", "-")
ServerKey(name) ==
    [i \in 1 .. Len(name) |-> IF Lower(name)[i] = " " THEN "-" ELSE Lower(name)[i]]

\* lines 88-105
add_custom_server ==
    IF custom_server_name = <<>> \/ custom_server_description = <<>>
    THEN /\ custom_server_form_error' =
              <<"N","a","m","e"," ","a","n","d"," ","d","e","s","c","r","i","p",
              "t","i","o","n"," ","a","r","e"," ","r","e","q","u","i","r","e",
              "d",".">>
         /\ UNCHANGED <<servers, show_mcp_modal, show_custom_server_form,
                        custom_server_name, custom_server_description,
                        custom_server_repo, chatVars, settingsVars>>
    ELSE IF ServerKey(custom_server_name) \in DOMAIN servers
    THEN /\ custom_server_form_error' =
              <<"A"," ","s","e","r","v","e","r"," ","w","i","t","h"," ","t","h",
              "i","s"," ","n","a","m","e"," ","a","l","r","e","a","d","y"," ",
              "e","x","i","s","t","s",".">>
         /\ UNCHANGED <<servers, show_mcp_modal, show_custom_server_form,
                        custom_server_name, custom_server_description,
                        custom_server_repo, chatVars, settingsVars>>
    ELSE /\ servers' = DictSet(servers, ServerKey(custom_server_name),
                               Server(custom_server_name, custom_server_description,
                                      custom_server_repo, FALSE, FALSE))
         /\ show_custom_server_form' = FALSE
         /\ reset_custom_server_form
         /\ UNCHANGED <<show_mcp_modal, chatVars, settingsVars>>

\* the setters the framework generates for the form's fields (lines 53-55)
set_custom_server_name(value) ==
    /\ custom_server_name' = value
    /\ UNCHANGED <<servers, show_mcp_modal, show_custom_server_form,
                   custom_server_description, custom_server_repo,
                   custom_server_form_error, chatVars, settingsVars>>

set_custom_server_description(value) ==
    /\ custom_server_description' = value
    /\ UNCHANGED <<servers, show_mcp_modal, show_custom_server_form,
                   custom_server_name, custom_server_repo,
                   custom_server_form_error, chatVars, settingsVars>>

set_custom_server_repo(value) ==
    /\ custom_server_repo' = value
    /\ UNCHANGED <<servers, show_mcp_modal, show_custom_server_form,
                   custom_server_name, custom_server_description,
                   custom_server_form_error, chatVars, settingsVars>>

McpNext ==
    \/ toggle_mcp_modal
    \/ \E server_name \in ServerChoices : install_server(server_name)
    \/ \E server_name \in ServerChoices : toggle_server_running(server_name)
    \/ toggle_custom_server_form
    \/ add_custom_server
    \/ \E value \in NameChoices : set_custom_server_name(value)
    \/ \E value \in { <<"t","e","s","t">> } : set_custom_server_description(value)
    \/ \E value \in { <<"r","e","p","o">> } : set_custom_server_repo(value)

McpSpec == Init /\ [][McpNext]_vars

(***************************************************************************)
(* Properties.                                                             *)
(***************************************************************************)
InProgress(t) == submits[t].pc \in ActivePcs

Quiescent == \A t \in Submits : ~InProgress(t)

IsPrefix(a, b) == Len(a) <= Len(b) /\ SubSeq(b, 1, Len(a)) = a

\* the placeholder of submission t is still where t appended it
HasPlaceholder(c, t) ==
    /\ submits[t].home \in DOMAIN c
    /\ submits[t].slot \in 1 .. Len(c[submits[t].home])
    /\ c[submits[t].home][submits[t].slot].role = "assistant"
    /\ c[submits[t].home][submits[t].slot].owner = t

\* C1: at most one submission is between appending its assistant placeholder
\* and clearing the streaming flag, in every reachable state.
C1_AtMostOneActiveStream ==
    Cardinality({t \in Submits : InProgress(t)}) <= 1

\* C2: whenever no submission is in progress the streaming flag is false, and
\* no submission stays in progress for ever: whichever path it takes, it
\* reaches the end of its finally block.
C2_FlagEventuallyCleared ==
    /\ [](Quiescent => ~is_streaming)
    /\ \A t \in Submits : []<>(~InProgress(t))

\* a submission ended by an IndexError raised at a write, nothing in progress
C2_Witness ==
    /\ Quiescent
    /\ ~is_streaming
    /\ \E t \in Submits : submits[t].pc = "crashed" /\ submits[t].exc = "IndexError"
    /\ \E t \in Submits : submits[t].pc = "done"

\* C3 as claimed: the active thread key is a key of the thread collection in
\* every reachable state, whatever key set_current_chat_id is given.
C3_ActiveKeyExists == current_chat_id \in DOMAIN chats

\* set_current_chat_id with a key that is not a key of the collection
SelectsAbsentKey ==
    \E chat_id \in ChatIdChoices \ DOMAIN chats : set_current_chat_id(chat_id)

\* C3 as amended: initially the collection holds exactly the default thread
\* and it is active, and every step other than a set_current_chat_id with a
\* key absent from the collection keeps the active key in the collection.
C3_ActiveKeyPreserved ==
    /\ chats = (NewChatTitle :> <<>>) /\ current_chat_id = NewChatTitle
    /\ [][(current_chat_id \in DOMAIN chats /\ ~SelectsAbsentKey)
            => current_chat_id' \in DOMAIN chats']_vars

\* the first thread was renamed by a submission, a second thread was created
\* and selected, and the active key is a key of the collection
C3_Witness ==
    /\ NewChatTitle \notin DOMAIN chats
    /\ Cardinality(DOMAIN chats) = 2
    /\ current_chat_id \in DOMAIN chats
    /\ chats[current_chat_id] = <<>>

\* the later list keeps every message of the earlier one: same roles, same
\* user contents
Extends(old, new) ==
    /\ Len(old) <= Len(new)
    /\ \A i \in 1 .. Len(old) :
          /\ new[i].role = old[i].role
          /\ new[i].owner = old[i].owner
          /\ old[i].role = "user" => new[i].content = old[i].content

\* C4: no step decreases the number of threads, and every message list is
\* still there after the step, under some key, as the beginning of a list.
C4_NoThreadLost ==
    [][/\ Cardinality(DOMAIN chats') >= Cardinality(DOMAIN chats)
       /\ \A k \in DOMAIN chats :
             \E k2 \in DOMAIN chats' : Extends(chats[k], chats'[k2])]_vars

\* C5: every content write of a submission lands in the placeholder that the
\* submission appended, in the thread that was active when it was submitted.
C5_WritesLandInOwnPlaceholder ==
    [][\A t \in Submits :
          (write_error(t) \/ stream_chunk(t))
            => /\ HasPlaceholder(chats, t)
               /\ current_chat_id = submits[t].home
               /\ Len(chats[current_chat_id]) = submits[t].slot]_vars

\* C6: while a submission is in progress, each value of its placeholder's
\* content has the previous value as a prefix.
C6_PlaceholderGrows ==
    [][\A t \in Submits :
          (InProgress(t) /\ HasPlaceholder(chats, t) /\ HasPlaceholder(chats', t))
            => IsPrefix(chats[submits[t].home][submits[t].slot].content,
                        chats'[submits[t].home][submits[t].slot].content)]_vars

\* C7: no submission and no refresh task ends by an exception that leaves
\* its handler.
C7_NoUncaughtException ==
    /\ \A t \in Submits : submits[t].pc # "crashed"
    /\ \A r \in Tasks : r.pc # "crashed"

\* C8: when a submission that found no model selected completes, its user
\* message is immediately followed by an assistant message whose content is
\* the "no model selected" text, and the streaming flag is false.
C8_NoModelSelectedWritten ==
    [][\A t \in Submits :
          (handle_submit_finally(t) /\ submits[t].error = NoModelSelected)
            => /\ HasPlaceholder(chats', t)
               /\ submits[t].slot > 1
               /\ chats'[submits[t].home][submits[t].slot - 1].role = "user"
               /\ chats'[submits[t].home][submits[t].slot - 1].owner = t
               /\ chats'[submits[t].home][submits[t].slot].content = NoModelSelected
               /\ ~is_streaming']_vars

\* C9: new_chat with n threads adds exactly one thread, keyed chat_<n>, that
\* was not there before, makes it active and empty, and leaves every other
\* thread as it was, so that there are n + 1 threads.
C9_NewChatAddsOneThread ==
    [][new_chat =>
          LET new_id == ChatPrefix \o Str(Cardinality(DOMAIN chats))
          IN  /\ new_id \notin DOMAIN chats
              /\ DOMAIN chats' = DOMAIN chats \cup {new_id}
              /\ Cardinality(DOMAIN chats') = Cardinality(DOMAIN chats) + 1
              /\ chats'[new_id] = <<>>
              /\ current_chat_id' = new_id
              /\ \A k \in DOMAIN chats : chats'[k] = chats[k]]_vars

\* the number of tasks of a provider between the two blocks
InFlightCount(provider) ==
    BagCardinality([r \in InFlight(provider) |-> refreshes[r]])

\* C10: the first block of refresh_models for a provider that is in the
\* loading set changes nothing and starts no fetch, and no provider ever has
\* two fetches in flight.
C10_RefreshIdempotentWhileLoading ==
    /\ [](\A provider \in ProviderChoices : InFlightCount(provider) <= 1)
    /\ [][\A r \in Tasks :
             (refresh_models_entry(r) /\ r.provider \in loading_models)
               => /\ UNCHANGED <<loading_models, expanded_providers, error_messages,
                                 models, api_keys, selected_model>>
                  /\ \A provider \in ProviderChoices :
                        InFlightCount(provider)' = InFlightCount(provider)]_vars

\* a listing of a provider is in flight while a second refresh_models of
\* the same provider is about to run its first block
C10_Witness ==
    \E r1, r2 \in Tasks :
        /\ r1.provider = r2.provider
        /\ r1.pc = "entry"
        /\ r2.pc = "listing"
        /\ r1.provider \in loading_models

\* the part of a selected-model string before its first ":", the whole string
\* when it has none
ProviderPart(s) ==
    IF \E i \in 1 .. Len(s) : s[i] = ":"
    THEN SubSeq(s, 1, (CHOOSE i \in 1 .. Len(s) :
                          s[i] = ":" /\ \A j \in 1 .. i - 1 : s[j] # ":") - 1)
    ELSE <<>>

\* C11: set_api_key(p, "") stores "" for p, takes p out of the expanded set and
\* out of the catalog, and empties the selected model exactly when the part of
\* the selected model before its first colon is p; a selection of another
\* provider stays as it is.
C11_ClearCredential ==
    [][\A provider \in ProviderChoices :
          set_api_key(provider, <<>>)
            => /\ provider \in DOMAIN api_keys' /\ api_keys'[provider] = <<>>
               /\ provider \notin expanded_providers'
               /\ provider \notin DOMAIN models'
               /\ (ProviderPart(selected_model) = provider) => selected_model' = <<>>
               /\ (ProviderPart(selected_model) # provider)
                     => selected_model' = selected_model]_vars

\* the credential of a provider was cleared while a listing issued with the
\* earlier credential is in flight, and the selection of another provider is
\* still there
C11_Witness ==
    \E r \in Tasks :
        /\ r.pc = "listing"
        /\ r.key = <<"s","k","-","1">>
        /\ api_keys[r.provider] = <<>>
        /\ r.provider \notin expanded_providers
        /\ selected_provider \notin {<<>>, r.provider}

\* C12: in every reachable state each assistant message is immediately
\* preceded, in its thread, by the user message of the same submission; there
\* is no state in which a placeholder is there without that user message.
C12_UserMessageBeforePlaceholder ==
    \A k \in DOMAIN chats :
        \A i \in 1 .. Len(chats[k]) :
            chats[k][i].role = "assistant"
              => /\ i > 1
                 /\ chats[k][i - 1].role = "user"
                 /\ chats[k][i - 1].owner = chats[k][i].owner

\* a thread holds the messages of two submissions, the second placeholder
\* still empty and its submission not yet resolved
C12_Witness ==
    \E k \in DOMAIN chats :
        /\ Len(chats[k]) = 4
        /\ chats[k][4].role = "assistant"
        /\ chats[k][4].content = <<>>
        /\ chats[k][3].role = "user"
        /\ \E t \in Submits : submits[t].pc = "resolve" /\ submits[t].home = k
                                /\ submits[t].slot = 4

(***************************************************************************)
(* The chat events with no event interleaved into a submission: an event   *)
(* is handled only when no submission is in progress.                      *)
(***************************************************************************)
SequentialNext ==
    \/ Quiescent /\ new_chat
    \/ Quiescent /\ \E chat_id \in ChatIdChoices : set_current_chat_id(chat_id)
    \/ Quiescent /\ \E model_id \in ModelChoices : select_model(model_id)
    \/ Quiescent /\ \E t \in Submits, message \in MessageTexts : handle_submit(t, message)
    \/ \E t \in Submits : process_and_stream_response(t)
    \/ \E t \in Submits : write_error(t)
    \/ \E t \in Submits, response \in Responses : create_stream(t, response)
    \/ \E t \in Submits : stream_chunk(t)
    \/ \E t \in Submits : handle_submit_finally(t)

SequentialSpec == Init /\ [][SequentialNext]_vars

\* a response that raises no APIError
Successful(chunks) == \A i \in 1 .. Len(chunks) : chunks[i].kind = "delta"

\* f1 f2 ... fk: the fragments of the chunks that carry one, concatenated
RECURSIVE Fragments(_)
Fragments(chunks) ==
    IF chunks = <<>> THEN <<>>
    ELSE IF Head(chunks).content = None THEN Fragments(Tail(chunks))
    ELSE Head(chunks).content \o Fragments(Tail(chunks))

\* the content of the placeholder of submission t in the threads c
Content(c, t) == c[submits[t].home][submits[t].slot].content

\* C13: with no other event interleaved, a successful stream of fragments
\* f1..fk starts from an empty placeholder, every write appends exactly the
\* next fragment to the placeholder (so the content is f1, f1f2, ..., one state
\* each, and f1..fk when the stream is exhausted), the streaming flag is true
\* as long as the submission is in progress, and the finally block leaves the
\* content and makes the flag false.
C13_FragmentsInOrder ==
    /\ [](\A t \in Submits : InProgress(t) => is_streaming)
    /\ [][\A t \in Submits :
             /\ \A response \in Responses :
                   (create_stream(t, response) /\ Successful(response))
                     => /\ HasPlaceholder(chats, t)
                        /\ Content(chats, t) = <<>>
                        /\ Fragments(submits'[t].chunks) = Fragments(response)
             /\ (stream_chunk(t) /\ Successful(submits[t].chunks))
                   => /\ HasPlaceholder(chats', t)
                      /\ Content(chats', t)
                            = Content(chats, t) \o Head(submits[t].chunks).content
                      /\ Content(chats', t) \o Fragments(submits'[t].chunks)
                            = Content(chats, t) \o Fragments(submits[t].chunks)
                      /\ submits'[t].pc = "finally" <=> submits'[t].chunks = <<>>
                      /\ submits'[t].exc = "none"
                      /\ is_streaming /\ is_streaming'
             /\ handle_submit_finally(t)
                   => /\ ~is_streaming'
                      /\ chats' = chats]_vars

\* the first fragment is in the placeholder, the second is still to come
C13_Witness ==
    \E t \in Submits :
        /\ submits[t].pc = "stream"
        /\ HasPlaceholder(chats, t)
        /\ Content(chats, t) = <<"H","e","l">>
        /\ submits[t].chunks = <<Delta(<<"l","o">>)>>
        /\ is_streaming

\* C14: the message list a submission sends with its streaming request is
\* the history of the thread it was submitted in, up to and including its own
\* user message, whatever happens between the submission and the resolution.
C14_RequestCarriesOwnHistory ==
    [][\A t \in Submits :
          (process_and_stream_response(t) /\ submits'[t].pc = "request")
            => /\ HasPlaceholder(chats, t)
               /\ submits'[t].sent
                     = SubSeq(chats[submits[t].home], 1, submits[t].slot - 1)]_vars

\* the submission resolves with a model selected: provider and id not empty
ResolvesWithModel(t) ==
    /\ process_and_stream_response(t)
    /\ selected_provider # <<>>
    /\ selected_model_id # <<>>

\* the submission ends having resolved to the error text
EndsWithError(t, text) == handle_submit_finally(t) /\ submits[t].error = text

\* the submission returns and its own placeholder holds the text
DoneWithContent(t, text) ==
    /\ submits'[t].pc = "done"
    /\ HasPlaceholder(chats', t)
    /\ Content(chats', t) = text

\* C15: a submission that resolves with a selected model whose provider is
\* not openai, groq, deepseek, openrouter, moonshot or ollama resolves to the
\* text "Provider '<provider>' is not yet supported for chat.", whatever the
\* credential, and ends Done with that text in its placeholder.
C15_UnsupportedProviderReported ==
    [][\A t \in Submits :
          /\ (ResolvesWithModel(t)
                /\ selected_provider
                      \notin {openai, groq, deepseek, openrouter, moonshot, ollama})
                => /\ submits'[t].pc = "write_error"
                   /\ submits'[t].error
                         = ProviderPrefix \o selected_provider \o NotSupportedSuffix
          /\ \A provider \in {anthropic, gemini} :
                EndsWithError(t, ProviderPrefix \o provider \o NotSupportedSuffix)
                  => DoneWithContent(t, ProviderPrefix \o provider \o NotSupportedSuffix)]_vars

\* C16: a submission that resolves with provider openai, groq, deepseek or
\* moonshot and an empty credential resolves to "API key for <provider> not
\* set." and ends Done with that text in its placeholder; with provider
\* openrouter or ollama it goes on to the streaming request, also with an
\* empty credential.
C16_MissingCredentialReported ==
    [][\A t \in Submits :
          /\ (ResolvesWithModel(t)
                /\ selected_provider \in {openai, groq, deepseek, moonshot}
                /\ api_keys[selected_provider] = <<>>)
                => /\ submits'[t].pc = "write_error"
                   /\ submits'[t].error
                         = ApiKeyForPrefix \o selected_provider \o NotSetSuffix
          /\ (ResolvesWithModel(t) /\ selected_provider \in {openrouter, ollama})
                => /\ submits'[t].pc = "request"
                   /\ submits'[t].error = <<>>
          /\ \A provider \in {openai, groq, deepseek, moonshot} :
                EndsWithError(t, ApiKeyForPrefix \o provider \o NotSetSuffix)
                  => DoneWithContent(t, ApiKeyForPrefix \o provider \o NotSetSuffix)]_vars

(***************************************************************************)
(* select_model with every string over a small alphabet as model_id.       *)
(***************************************************************************)
ModelIdChars == {"a", "b", ":"}

\* the strings of at most n characters
RECURSIVE StringsUpTo(_)
StringsUpTo(n) ==
    IF n = 0 THEN {<<>>}
    ELSE LET shorter == StringsUpTo(n - 1)
         IN  shorter \cup {Append(str, c) : str \in shorter, c \in ModelIdChars}

SelectableStrings == StringsUpTo(MaxModelIdLen)

SelectNext == \E model_id \in SelectableStrings : select_model(model_id)

SelectSpec == Init /\ [][SelectNext]_vars

\* C17: when the selected-model string has a colon, selected_provider has no
\* colon and selected_provider + ":" + selected_model_id is the string, so
\* the provider is the part before the first colon and the model id all that
\* follows it; when the string has no colon both are empty.
C17_SplitAtFirstColon ==
    IF \E i \in 1 .. Len(selected_model) : selected_model[i] = ":"
    THEN /\ selected_provider \o <<":">> \o selected_model_id = selected_model
         /\ \A i \in 1 .. Len(selected_provider) : selected_provider[i] # ":"
    ELSE /\ selected_provider = <<>>
         /\ selected_model_id = <<>>

\* a selected model with two colons: the second one is part of the model id
C17_Witness ==
    /\ Cardinality({i \in 1 .. Len(selected_model) : selected_model[i] = ":"}) = 2
    /\ selected_provider = <<"a">>
    /\ selected_model_id = <<"b", ":">>

\* two characters that are equal or the two cases of one letter
SameLetter(a, b) ==
    \/ a = b
    \/ \E i \in 1 .. Len(UppercaseLetters) :
          {a, b} = {UppercaseLetters[i], LowercaseLetters[i]}

\* the model id has the term as a substring, case ignored
HasIgnoringCase(model, term) ==
    \E i \in 0 .. Len(model) - Len(term) :
        \A j \in 1 .. Len(term) : SameLetter(model[i + j], term[j])

\* the search term of a provider, empty when none was set
TermOf(provider) ==
    IF provider \in DOMAIN model_search_terms
    THEN model_search_terms[provider] ELSE <<>>

\* C18: filtered_models has exactly the keys of the catalog; the view of a
\* provider with no or an empty search term is its cached list, and otherwise
\* the cached list restricted, in its order, to the ids that have the term as
\* a substring with case ignored; setting the term of one provider leaves the
\* view of every other provider as it was.
C18_FilteredView ==
    /\ [](/\ DOMAIN filtered_models = DOMAIN models
          /\ \A provider \in DOMAIN models :
                filtered_models[provider] =
                    IF TermOf(provider) = <<>>
                    THEN models[provider]
                    ELSE SelectSeq(models[provider],
                                   LAMBDA model : HasIgnoringCase(model, TermOf(provider))))
    /\ [][\A provider \in SearchProviders, term \in SearchTerms :
             set_model_search_term(provider, term)
               => \A other \in DOMAIN models \ {provider} :
                     /\ other \in DOMAIN filtered_models'
                     /\ filtered_models'[other] = filtered_models[other]]_vars

\* the listed ids of openai, one of them "C", are filtered by the term "c",
\* and a term is set for anthropic, which has no catalog
C18_Witness ==
    /\ openai \in DOMAIN models
    /\ Len(models[openai]) = 3
    /\ TermOf(openai) = <<"c">>
    /\ filtered_models[openai] = << <<"C">> >>
    /\ TermOf(anthropic) = <<"S">>

\* the entries of the providers other than p are the same in d and e
SameElsewhere(d, e, p) ==
    /\ DOMAIN d \ {p} = DOMAIN e \ {p}
    /\ \A q \in DOMAIN d \ {p} : d[q] = e[q]

C20_EntryClearsStaleData ==
    /\ [](\A p \in loading_models :
            p \notin DOMAIN models /\ p \notin DOMAIN error_messages)
    /\ [][\A r \in Tasks :
             (refresh_models_entry(r) /\ r.provider \notin loading_models)
               => /\ r.provider \in loading_models'
                  /\ r.provider \in expanded_providers'
                  /\ r.provider \notin DOMAIN error_messages'
                  /\ r.provider \notin DOMAIN models'
                  /\ SameElsewhere(models, models', r.provider)
                  /\ SameElsewhere(error_messages, error_messages', r.provider)]_vars

\* a refresh of anthropic has run its first block and its fetcher has not
\* returned: the provider is loading and expanded and has neither a cached
\* list nor an error
C20_Witness ==
    \E r \in Tasks :
        /\ r.pc = "fetch"
        /\ r.provider = anthropic
        /\ anthropic \in loading_models
        /\ anthropic \in expanded_providers
        /\ anthropic \notin DOMAIN models
        /\ anthropic \notin DOMAIN error_messages

\* no element of the list is smaller than an element before it
IsAscending(list) ==
    \A i, j \in 1 .. Len(list) : i < j => ~StrLess(list[j], list[i])

\* the two lists have the same elements, each as many times
SameElements(a, b) ==
    /\ Len(a) = Len(b)
    /\ \A x \in {a[i] : i \in 1 .. Len(a)} :
          Cardinality({i \in 1 .. Len(a) : a[i] = x})
            = Cardinality({i \in 1 .. Len(b) : b[i] = x})

\* what the fetcher of openai, groq and deepseek is to return for an outcome
\* of its listing call
OpenAiOutcomeReturned(outcome, task) ==
    IF outcome.kind = "auth"
    THEN task.error = InvalidApiKey /\ task.fetched_models = <<>>
    ELSE IF outcome.kind = "ok"
    THEN /\ task.error = None
         /\ IsAscending(task.fetched_models)
         /\ SameElements(task.fetched_models,
                         [i \in 1 .. Len(outcome.entries) |-> outcome.entries[i].id])
    ELSE /\ task.error = ErrorPrefix \o outcome.message
         /\ task.fetched_models = <<>>

\* C21: for openai, groq and deepseek a listing is issued with a non-empty
\* key only; an authentication failure returns "Invalid API Key.", any other
\* failure "Error: <message>", both without ids, and a success returns the ids
\* in ascending order and no error; the completing block then leaves an error
\* in the error map and no catalog entry, or every returned id in the catalog,
\* in the returned order, and no error entry.
C21_OpenAiListingOutcomes ==
    [][\A r \in Tasks :
          r.provider \in {openai, groq, deepseek}
            => /\ \A outcome \in ListingOutcomes :
                     fetch_response(r, outcome)
                       => /\ r.key \notin {None, <<>>}
                          /\ \E next \in Tasks' :
                                /\ refreshes' = Moved(r, next)
                                /\ next.provider = r.provider
                                /\ next.pc = "complete"
                                /\ OpenAiOutcomeReturned(outcome, next)
               /\ (refresh_models_complete(r) /\ r.error # None)
                     => /\ r.provider \in DOMAIN error_messages'
                        /\ error_messages'[r.provider] = r.error
                        /\ r.provider \notin DOMAIN models'
               /\ (refresh_models_complete(r) /\ r.error = None)
                     => /\ r.provider \notin DOMAIN error_messages'
                        /\ r.fetched_models # <<>>
                              => /\ r.provider \in DOMAIN models'
                                 /\ models'[r.provider] = r.fetched_models]_vars

\* a listing of openai failed with an authentication failure and its refresh
\* has completed
C21_Witness ==
    /\ openai \in DOMAIN error_messages
    /\ error_messages[openai] = InvalidApiKey
    /\ openai \notin DOMAIN models
    /\ openai \notin loading_models
    /\ api_keys[openai] # <<>>

\* C22: a message that is still there after a step (same position, same
\* submission, under the same or a renamed key) keeps its role; a user
\* message keeps its content; the content of an assistant message changes
\* only in a step before which it is the last message of its thread and a
\* submission is between its placeholder and the end of its finally block.
C22_MessagesImmutable ==
    [][\A k \in DOMAIN chats, k2 \in DOMAIN chats' :
          \A i \in 1 .. Len(chats[k]) :
              (i <= Len(chats'[k2]) /\ chats'[k2][i].owner = chats[k][i].owner)
                => /\ chats'[k2][i].role = chats[k][i].role
                   /\ chats[k][i].role = "user"
                         => chats'[k2][i].content = chats[k][i].content
                   /\ chats'[k2][i].content # chats[k][i].content
                         => /\ chats[k][i].role = "assistant"
                            /\ i = Len(chats[k])
                            /\ \E t \in Submits : InProgress(t)]_vars

\* a submission has written into the last message of a thread it was not
\* submitted in, a message of another submission
C22_Witness ==
    \E t \in Submits, k \in DOMAIN chats :
        /\ InProgress(t)
        /\ submits[t].home # k
        /\ chats[k] # <<>>
        /\ chats[k][Len(chats[k])].role = "assistant"
        /\ chats[k][Len(chats[k])].owner # t
        /\ chats[k][Len(chats[k])].content = <<"H","e","l">>
        /\ submits[t].acc = <<"H","e","l">>

(***************************************************************************)
(* Submissions whose text, once stripped, is the initial title itself, a   *)
(* new_chat key, or longer than the title length; no model is selected.    *)
(***************************************************************************)
RenameTexts ==
    { <<" ","n","e","w"," ","c","h","a","t"," ">>,
      <<" ","c","h","a","t","_","1"," ">>,
      <<"t","e","l","l"," ","m","e"," ","a","b","o","u","t"," ","n","e","w"," ","c","h","a","t","_","1">> }

RenameNext ==
    \/ new_chat
    \/ \E chat_id \in SidebarTitles : set_current_chat_id(chat_id)
    \/ \E t \in Submits, message \in RenameTexts : handle_submit(t, message)
    \/ \E t \in Submits : process_and_stream_response(t)
    \/ \E t \in Submits : write_error(t)
    \/ \E t \in Submits : handle_submit_finally(t)

RenameSpec == Init /\ [][RenameNext]_vars

\* the first 20 characters of a text
First20(text) ==
    [i \in 1 .. (IF Len(text) < 20 THEN Len(text) ELSE 20) |-> text[i]]

\* the thread is empty and its key begins with the initial title
IsFresh(c, id) ==
    /\ c[id] = <<>>
    /\ Len(id) >= 8
    /\ SubSeq(id, 1, 8) = <<"n","e","w"," ","c","h","a","t">>

\* what a submission of a non-blank message into the active thread does to
\* the threads; oldKeyGone tells whether the old key is to be absent after a
\* rename whatever the new key is
SubmitRenames(t, message, oldKeyGone) ==
    LET text  == Strip(message)
        old   == current_chat_id
        title == First20(text)
        pair  == <<[role |-> "user", content |-> text, owner |-> t],
                   [role |-> "assistant", content |-> <<>>, owner |-> t]>>
    IN  IF IsFresh(chats, old)
        THEN /\ title \in DOMAIN chats'
             /\ chats'[title] = pair
             /\ current_chat_id' = title
             /\ (oldKeyGone \/ title # old) => old \notin DOMAIN chats'
             /\ \A k \in DOMAIN chats \ {old, title} :
                   k \in DOMAIN chats' /\ chats'[k] = chats[k]
        ELSE /\ current_chat_id' = old
             /\ DOMAIN chats' = DOMAIN chats
             /\ chats'[old] = chats[old] \o pair
             /\ \A k \in DOMAIN chats \ {old} : chats'[k] = chats[k]

\* C23 as claimed: a submission into an empty thread whose key has the initial
\* form moves the list to the key made of the first 20 characters of the
\* stripped text, the old key is gone, the new key is active and the order
\* user message, placeholder is kept; any other thread keeps its key.
C23_RenameOnFirstMessage ==
    [][\A t \in Submits, message \in RenameTexts :
          (handle_submit(t, message) /\ Strip(message) # <<>>
             /\ current_chat_id \in DOMAIN chats)
            => SubmitRenames(t, message, TRUE)]_vars

\* C23 as amended: the same, the old key being gone only when the new key
\* differs from it.
C23_RenameUnlessSameKey ==
    [][\A t \in Submits, message \in RenameTexts :
          (handle_submit(t, message) /\ Strip(message) # <<>>
             /\ current_chat_id \in DOMAIN chats)
            => SubmitRenames(t, message, FALSE)]_vars

\* the initial thread was renamed to the first 20 characters of a longer
\* text, and a second submission into it did not rename it again
C23_Witness ==
    \E k \in DOMAIN chats :
        /\ Len(k) = 20
        /\ Len(chats[k]) = 4
        /\ Len(chats[k][1].content) > 20
        /\ NewChatTitle \notin DOMAIN chats

\* the configuration is in error: no model selected, a provider that is not
\* supported for chat, or a provider that needs a credential and has none
ConfigurationError ==
    \/ selected_provider = <<>>
    \/ selected_model_id = <<>>
    \/ selected_provider \notin {openai, groq, deepseek, openrouter, moonshot, ollama}
    \/ /\ selected_provider \in {openai, groq, deepseek, moonshot}
       /\ api_keys[selected_provider] = <<>>

\* C24: a submission that resolves under a configuration error resolves to an
\* error text with no message list to send, and never reaches the streaming
\* request; a later submission into the thread appends its user message and
\* its placeholder after the messages that are there, and its successful
\* stream appends each fragment to its placeholder.
C24_ConfigErrorNotFatal ==
    [][\A t \in Submits :
          /\ (process_and_stream_response(t) /\ ConfigurationError)
                => /\ submits'[t].pc = "write_error"
                   /\ submits'[t].error # <<>>
                   /\ submits'[t].sent = <<>>
          /\ submits[t].error # <<>> => submits'[t].pc \notin {"request", "stream"}
          /\ submits'[t].pc \in {"request", "stream"} => submits'[t].error = <<>>
          /\ \A message \in MessageTexts :
                (handle_submit(t, message) /\ Strip(message) # <<>>
                   /\ current_chat_id \in DOMAIN chats
                   /\ chats[current_chat_id] # <<>>)
                  => /\ current_chat_id' = current_chat_id
                     /\ chats'[current_chat_id]
                           = chats[current_chat_id]
                               \o <<[role |-> "user", content |-> Strip(message), owner |-> t],
                                    [role |-> "assistant", content |-> <<>>, owner |-> t]>>
                     /\ submits'[t].pc = "resolve"
          /\ (stream_chunk(t) /\ Successful(submits[t].chunks)
                /\ submits[t].slot > 2)
                => /\ HasPlaceholder(chats', t)
                   /\ Content(chats', t)
                         = Content(chats, t) \o Head(submits[t].chunks).content]_vars

\* a thread holds an error message of a first submission and, after it, the
\* user message and the fully streamed answer of a second one
C24_Witness ==
    \E k \in DOMAIN chats :
        /\ Len(chats[k]) = 4
        /\ chats[k][2].content = NoModelSelected
        /\ chats[k][3].role = "user"
        /\ chats[k][4].content = <<"H","e","l","l","o">>
        /\ \A t \in Submits : submits[t].pc = "done"
        /\ ~is_streaming

\* C25: the streaming flag is true in every state in which a submission has
\* appended its placeholder and has not ended, also when another submission
\* has ended in the meantime.
C25_FlagTrueWhileInProgress ==
    (\E t \in Submits : InProgress(t)) => is_streaming

\* C26: under fair scheduling no provider stays in the loading set for ever,
\* whatever set_api_key, toggle_provider_expansion and refresh_models events
\* interleave, for the eight known providers and for an unknown key.
C26_LoadingEventuallyCleared ==
    \A provider \in ProviderChoices : []<>(provider \notin loading_models)

\* the unknown provider is loading after set_api_key gave it a credential:
\* its refresh has run its first block and has no fetcher to dispatch to,
\* and a further refresh of it has been started
C26_Witness ==
    /\ UnknownProvider \in loading_models
    /\ Get(api_keys, UnknownProvider) \notin {None, <<>>}
    /\ \E r \in Tasks : r.provider = UnknownProvider /\ r.pc = "complete"
    /\ \E r \in Tasks : r.provider = UnknownProvider /\ r.pc = "entry"

\* C27: every list in the catalog is in ascending alphabetical order, the
\* fixed list that a refresh of anthropic stores included.
C27_CatalogSorted ==
    \A provider \in DOMAIN models : IsAscending(models[provider])

\* C28: when a refresh of a provider completes without an error and with no
\* model id, the catalog has the provider's key with the empty list; a key
\* enters the catalog only when a refresh of its provider completes.
C28_EmptyListStored ==
    /\ [][\A r \in Tasks :
             (refresh_models_complete(r) /\ r.error \in {None, <<>>}
                                         /\ r.fetched_models = <<>>)
               => /\ r.provider \in DOMAIN models'
                  /\ models'[r.provider] = <<>>]_vars
    /\ [][\A provider \in ProviderChoices :
             (provider \notin DOMAIN models /\ provider \in DOMAIN models')
               => \E r \in Tasks : r.provider = provider /\ refresh_models_complete(r)]_vars

\* C29: clearing a provider's credential leaves its refresh tasks and the
\* loading set as they are, and a refresh that completes while the credential
\* is empty stores its error, or else its non-empty list, as any other.
C29_LateResultStored ==
    /\ [][\A provider \in ProviderChoices :
             set_api_key(provider, <<>>) => UNCHANGED <<refreshes, loading_models>>]_vars
    /\ [][\A r \in Tasks :
             (refresh_models_complete(r) /\ Get(api_keys, r.provider) = <<>>)
               => IF r.error \notin {None, <<>>}
                  THEN /\ r.provider \in DOMAIN error_messages'
                       /\ error_messages'[r.provider] = r.error
                  ELSE r.fetched_models # <<>>
                         => /\ r.provider \in DOMAIN models'
                            /\ models'[r.provider] = r.fetched_models]_vars

\* a provider whose fetcher returns at once without a credential has an
\* empty credential and a non-empty list in the catalog
C29_Witness ==
    \E provider \in KeyRequiredProviders :
        /\ Get(api_keys, provider) = <<>>
        /\ provider \in DOMAIN models
        /\ models[provider] # <<>>

\* C30: set_api_key with a non-empty key starts a refresh task in the same
\* step, and when the last refresh task of a provider with a listing call
\* ends while the provider has a non-empty credential, the fetch that ends
\* was performed with that credential.
C30_FetchWithNewCredential ==
    /\ [][\A provider \in ProviderChoices, key \in KeyChoices \ {<<>>} :
             set_api_key(provider, key)
               => \E r \in Tasks' : r.provider = provider /\ r.pc = "entry"]_vars
    /\ [][\A r \in Tasks :
             (/\ refresh_models_complete(r)
              /\ r.provider \in ListingProviders
              /\ Get(api_keys, r.provider) \notin {None, <<>>}
              /\ ~\E t \in Tasks' : t.provider = r.provider)
               => r.key = FetchKey(r.provider)]_vars

\* C31: when the fetcher of openai, groq, deepseek, gemini or moonshot finds
\* the credential empty it returns without a listing call, with no list and
\* no error, and the refresh then ends with no catalog entry and no error
\* entry of the provider; the fetchers of openrouter and ollama issue their
\* listing call with the empty credential.
C31_EmptyCredentialShortCircuit ==
    /\ [][\A r \in Tasks :
             (fetch_models(r) /\ Get(api_keys, r.provider) = <<>>)
               => IF r.provider \in {openai, groq, deepseek, gemini, moonshot}
                  THEN /\ refreshes' = Moved(r, [r EXCEPT !.pc = "complete"])
                       /\ r.fetched_models = <<>> /\ r.error = None
                  ELSE r.provider \in {openrouter, ollama}
                         => refreshes' = Moved(r, [r EXCEPT !.pc = "listing",
                                                            !.key = <<>>])]_vars
    /\ [][\A r \in Tasks :
             (/\ refresh_models_complete(r)
              /\ r.provider \in {openai, groq, deepseek, gemini, moonshot}
              /\ r.key = None)
               => /\ r.provider \notin DOMAIN models'
                  /\ r.provider \notin DOMAIN error_messages']_vars

\* a refresh of one of the five providers has returned from its fetcher
\* without a call while the credential is empty
C31_Witness ==
    \E r \in Tasks :
        /\ r.provider \in {openai, groq, deepseek, gemini, moonshot}
        /\ r.pc = "complete" /\ r.key = None
        /\ Get(api_keys, r.provider) = <<>>

\* the text has no character other than whitespace
IsBlank(message) == \A i \in 1 .. Len(message) : message[i] \in Whitespace

\* C32: handle_submit with a text that is empty after trimming leaves the
\* threads, their message lists, the active thread key and the streaming flag
\* as they are and starts no resolution and no stream: the submission is over
\* at once and no other submission is touched.
C32_BlankSubmitNoOp ==
    [][\A t \in Submits, message \in MessageTexts :
          (handle_submit(t, message) /\ IsBlank(message))
            => /\ UNCHANGED <<chats, current_chat_id, is_streaming, settingsVars>>
               /\ ~InProgress(t)'
               /\ submits'[t].sent = <<>> /\ submits'[t].chunks = <<>>
               /\ \A u \in Submits \ {t} : submits'[u] = submits[u]]_vars

\* a blank submission is over, having appended nothing, while another
\* submission is in progress with the streaming flag set
C32_Witness ==
    /\ is_streaming
    /\ \E t \in Submits : submits[t].pc = "done" /\ submits[t].slot = 0
    /\ \E t \in Submits : InProgress(t) /\ HasPlaceholder(chats, t)

\* how many of: in the loading set, an error entry, a catalog entry
StatusCount(provider) ==
    (IF provider \in loading_models THEN 1 ELSE 0)
      + (IF provider \in DOMAIN error_messages THEN 1 ELSE 0)
      + (IF provider \in DOMAIN models THEN 1 ELSE 0)

\* C33: in every reachable state a provider is in at most one of the loading
\* set, the error map and the catalog.
C33_OneStatusPerProvider ==
    \A provider \in ProviderChoices : StatusCount(provider) <= 1

\* a provider with a catalog entry has a further refresh started, whose
\* first block is about to put it in the loading set
C33_Witness ==
    \E r \in Tasks :
        /\ r.pc = "entry"
        /\ r.provider \in DOMAIN models
        /\ r.provider \notin loading_models

\* C34: in every reachable state the loading set is the set of the providers
\* with a refresh task past its first block and before the end of its second
\* block; the removal in the second block finds the provider in the set and
\* no task ends by the KeyError of set.remove.
C34_LoadingSetIsInFlightSet ==
    /\ [](loading_models = {provider \in ProviderChoices : InFlight(provider) # {}})
    /\ [](\A r \in Tasks : r.pc # "crashed")
    /\ [][\A r \in Tasks :
             refresh_models_complete(r) => r.provider \in loading_models]_vars

\* the listing call of a refresh is in flight, the credential it used has
\* been cleared since, and a further refresh of the provider has been started
C34_Witness ==
    \E r \in Tasks :
        /\ r.pc = "listing" /\ r.key # <<>>
        /\ Get(api_keys, r.provider) = <<>>
        /\ r.provider \in loading_models
        /\ \E t \in Tasks : t.provider = r.provider /\ t.pc = "entry"

\* the list is user, assistant, user, assistant, ...
Alternates(list) ==
    /\ Len(list) % 2 = 0
    /\ \A i \in 1 .. Len(list) :
          list[i].role = IF i % 2 = 1 THEN "user" ELSE "assistant"

\* C35: in every reachable state every thread's list has even length and
\* alternates user, assistant from a user message on, and a step that writes
\* an error or a streamed fragment leaves every user message as it is, also
\* with overlapping submissions and thread switches.
C35_ThreadsAlternate ==
    /\ [](\A k \in DOMAIN chats : Alternates(chats[k]))
    /\ [][(\E t \in Submits : write_error(t) \/ stream_chunk(t))
            => /\ DOMAIN chats' = DOMAIN chats
               /\ \A k \in DOMAIN chats :
                     /\ Len(chats'[k]) = Len(chats[k])
                     /\ \A i \in 1 .. Len(chats[k]) :
                           chats[k][i].role = "user" => chats'[k][i] = chats[k][i]]_vars

\* two submissions overlap in one thread, which holds their four messages,
\* and one of the two placeholders has been written to
C35_Witness ==
    /\ Cardinality({t \in Submits : InProgress(t)}) = 2
    /\ \E k \in DOMAIN chats :
          /\ Len(chats[k]) = 4
          /\ \E i \in 1 .. 4 : chats[k][i].role = "assistant" /\ chats[k][i].content # <<>>

\* C36: a server is running only if it is installed.  install_server sets
\* installed for a server it knows and changes nothing for another key,
\* toggle_server_running flips running for a known installed server and
\* changes nothing otherwise, and no step clears installed or removes a
\* server.
C36_RunningImpliesInstalled ==
    /\ [](\A k \in DOMAIN servers : servers[k].running => servers[k].installed)
    /\ [][\A server_name \in ServerChoices :
             install_server(server_name)
               => IF server_name \in DOMAIN servers
                  THEN servers' = [servers EXCEPT ![server_name].installed = TRUE]
                  ELSE UNCHANGED servers]_vars
    /\ [][\A server_name \in ServerChoices :
             toggle_server_running(server_name)
               => IF server_name \in DOMAIN servers
                  THEN IF servers[server_name].installed
                       THEN servers' = [servers EXCEPT
                                          ![server_name].running = ~servers[server_name].running]
                       ELSE UNCHANGED servers
                  ELSE UNCHANGED servers]_vars
    /\ [][\A k \in DOMAIN servers :
             /\ k \in DOMAIN servers'
             /\ servers[k].installed => servers'[k].installed]_vars

\* an initial server is installed and running, a custom server has been
\* added and is not installed, and a third server is installed and stopped
C36_Witness ==
    /\ servers[web_search].installed /\ servers[web_search].running
    /\ CustomKey \in DOMAIN servers /\ ~servers[CustomKey].installed
    /\ servers[time].installed /\ ~servers[time].running

====
